---- MODULE Spec2Model ----
(***************************************************************************)
(* Model of mindsdb_sdk: the completion-stream SQL extractor               *)
(* (mindsdb_sdk/utils/agents.py, MindsDBSQLStreamParser) and the skill     *)
(* handling of the agents collection (mindsdb_sdk/agents.py, skills.py).   *)
(*                                                                         *)
(* Text is a sequence of tokens.  Inside a tool string the tokens are      *)
(*   "M"  the substring sql_db_query        "TI" the substring tool_input= *)
(*   "dq" a double quote   "sq" a single quote   "bs" a backslash          *)
(*   "nl" a newline        "a", "b" ordinary characters                    *)
(***************************************************************************)
EXTENDS Integers, Sequences, FiniteSets, TLC

\* ---------------------------------------------------------------- bounds
MaxChunks == 3
MaxPairChunks == 2
MaxSkills == 2

\* ---------------------------------------------------------- Python values
None == [t |-> "none", v |-> <<>>]
Absent == [t |-> "absent", v |-> <<>>]
Num == [t |-> "num", v |-> <<>>]
Str(s) == [t |-> "str", v |-> s]

\* Python truthiness of a value: None and "" are falsy, a non-zero number
\* and a non-empty string are truthy.
Truthy(x) == (x.t = "str" /\ x.v # <<>>) \/ x.t = "num"

Min(S) == CHOOSE x \in S : \A y \in S : x <= y

Contains(s, tok) == \E i \in 1..Len(s) : s[i] = tok

\* ------------------------------------------------------------ the chunks
Act(tool) == [tool |-> tool]
StrChunk(s) == [kind |-> "str", text |-> s, output |-> Absent,
                hasActions |-> FALSE, actions |-> <<>>]
OtherChunk == [kind |-> "other", text |-> <<>>, output |-> Absent,
               hasActions |-> FALSE, actions |-> <<>>]
Rec(o, has, acts) == [kind |-> "dict", text |-> <<>>, output |-> o,
                      hasActions |-> has, actions |-> acts]

\* tool string  sql_db_query tool_input="<p>"
QueryTool(p) == <<"M", "TI", "dq">> \o p \o <<"dq">>

\* chunks a completion stream may deliver
Chunks ==
  { StrChunk(<<"a">>),
    OtherChunk,
    Rec(Absent, FALSE, <<>>),
    Rec(Str(<<"b">>), FALSE, <<>>),
    Rec(Str(<<>>), TRUE, <<>>),
    Rec(Str(<<"b">>), TRUE, <<Act(Absent)>>),
    Rec(Absent, TRUE, <<Act(Str(<<"M">>))>>),
    Rec(Absent, TRUE, <<Act(Str(<<"TI", "dq", "a", "dq">>))>>),
    Rec(Absent, TRUE, <<Act(Str(<<"M", "TI", "dq", "nl", "dq">>))>>),
    Rec(Str(<<"b">>), TRUE, <<Act(Str(QueryTool(<<"a">>)))>>),
    Rec(Absent, TRUE, <<Act(Str(QueryTool(<<>>)))>>),
    Rec(Absent, TRUE, <<Act(Str(QueryTool(<<"bs", "sq", "a">>)))>>),
    Rec(Absent, TRUE, <<Act(Str(<<"M">>)), Act(Str(QueryTool(<<"sq">>))),
                        Act(Str(QueryTool(<<"a">>) \o <<"b", "dq">>))>>),
    Rec(Absent, TRUE, <<Act(None)>>),
    Rec(Num, FALSE, <<>>) }

\* chunks of the two-call specification
PairChunks ==
  { StrChunk(<<"a">>),
    Rec(Str(<<"b">>), TRUE, <<Act(Str(QueryTool(<<"a">>)))>>),
    Rec(Absent, TRUE, <<Act(Str(QueryTool(<<"bs", "sq", "a">>)))>>),
    Rec(Absent, TRUE, <<Act(Str(QueryTool(<<>>)))>>) }

\* failures the underlying sequence may raise while producing a chunk
Failures == {"ConnectionError", "ChunkedEncodingError"}

Calls == {1, 2}

VARIABLES pc, consumed, srcfail, sql_query_found, yielded, full_response,
          sql_query, err, result, interleaved

\* the server's skills, the skills of the agent on the server, and the last
\* Agents.create / Agents.update invocation with the requests it sent
VARIABLES serverSkills, agentSkills, handler

svars == <<pc, consumed, srcfail, sql_query_found, yielded, full_response,
           sql_query, err, result, interleaved>>
avars == <<serverSkills, agentSkills, handler>>
vars == <<pc, consumed, srcfail, sql_query_found, yielded, full_response,
          sql_query, err, result, interleaved, serverSkills, agentSkills, handler>>

\* --------------------------------------------- stream_and_parse_sql_query
NoMatch == [matched |-> FALSE, group1 |-> <<>>]

\* re.search(r'tool_input="(.*?)"', tool): leftmost start, lazy group that
\* ends at the first following double quote; '.' does not match a newline.
Search(tool) ==
  LET n == Len(tool)
      starts == { i \in 1..n :
                    /\ i + 2 <= n
                    /\ tool[i] = "TI" /\ tool[i+1] = "dq"
                    /\ \E j \in (i+2)..n :
                          /\ tool[j] = "dq"
                          /\ \A k \in (i+2)..(j-1) : tool[k] \notin {"dq", "nl"} }
  IN IF starts = {} THEN NoMatch
     ELSE LET i == Min(starts)
              j == Min({ k \in (i+2)..n : tool[k] = "dq" })
          IN [matched |-> TRUE, group1 |-> SubSeq(tool, i+2, j-1)]

\* str.replace("\\'", "'"): left to right, non-overlapping
RECURSIVE Unescape(_)
Unescape(s) ==
  IF s = <<>> THEN <<>>
  ELSE IF Len(s) >= 2 /\ s[1] = "bs" /\ s[2] = "sq"
       THEN <<"sq">> \o Unescape(SubSeq(s, 3, Len(s)))
       ELSE <<s[1]>> \o Unescape(Tail(s))

IsSqlToolNoGuard(action) ==
  IF action.tool.t = "absent" THEN "KeyError"
  ELSE IF action.tool.t # "str" THEN "TypeError"
  ELSE IF Contains(action.tool.v, "M") THEN "yes" ELSE "no"

\* 'tool' in action and 'sql_db_query' in action['tool']
IsSqlTool(action) ==
  IF action.tool.t = "absent" THEN "no"
  ELSE IF action.tool.t # "str" THEN "TypeError"
  ELSE IF Contains(action.tool.v, "M") THEN "yes" ELSE "no"

ShouldCaptureAlways(match, found) == match.matched

\* if match and not sql_query_found
ShouldCapture(match, found) == match.matched /\ ~found

\* for action in chunk['actions']: ... break
RECURSIVE ScanActions(_, _, _)
ScanActions(actions, i, found) ==
  IF i > Len(actions) THEN [sql_query |-> None, found |-> found, err |-> "none"]
  ELSE LET t == IsSqlTool(actions[i])
       IN IF t \in {"TypeError", "KeyError"}
          THEN [sql_query |-> None, found |-> found, err |-> t]
          ELSE IF t = "yes" /\ ShouldCapture(Search(actions[i].tool.v), found)
          THEN [sql_query |-> Str(Unescape(Search(actions[i].tool.v).group1)),
                found |-> TRUE, err |-> "none"]
          ELSE ScanActions(actions, i + 1, found)

\* output = chunk.get('output', '')  /  output = chunk  /  output = ""
ChunkOutput(chunk) ==
  IF chunk.kind = "dict"
  THEN IF chunk.output.t = "absent" THEN Str(<<>>) ELSE chunk.output
  ELSE IF chunk.kind = "str" THEN Str(chunk.text) ELSE Str(<<>>)

\* one iteration of the generator's loop: the record it yields for a chunk,
\* the latch afterwards, and the error it raises instead (if any)
ParseChunk(chunk, found) ==
  LET scan == IF chunk.kind = "dict" /\ chunk.hasActions /\ chunk.actions # <<>>
              THEN ScanActions(chunk.actions, 1, found)
              ELSE [sql_query |-> None, found |-> found, err |-> "none"]
  IN [output |-> ChunkOutput(chunk), sql_query |-> scan.sql_query,
      found |-> scan.found, err |-> scan.err]

\* ------------------------------------------------------- process_stream
AccumulatePrepend(full, out) == out \o full

\* full_response += result['output']
Accumulate(full, out) == full \o out

\* if result['sql_query'] and sql_query is None: sql_query = result['sql_query']
Latch(cur, rsql) == IF Truthy(rsql) /\ cur = None THEN rsql ELSE cur

NoResult == [returned |-> FALSE, full_response |-> <<>>, sql_query |-> None]
Result(full, sql) == [returned |-> TRUE, full_response |-> full, sql_query |-> sql]

SourceFailureSwallowed(f, full, sql) ==
  [pc |-> "done", err |-> "none", result |-> Result(full, sql)]

\* the for loops of process_stream and of the generator have no handler:
\* a failure of the underlying sequence leaves both frames
SourceFailure(f, full, sql) ==
  [pc |-> "raised", err |-> f, result |-> NoResult]

FoundFlagShared(c, flags) == \E d \in Calls : flags[d]

\* sql_query_found is a local of the generator frame of call c
FoundFlag(c, flags) == flags[c]

StreamInit ==
  /\ pc = [c \in Calls |-> "idle"]
  /\ consumed = [c \in Calls |-> <<>>]
  /\ srcfail = [c \in Calls |-> "none"]
  /\ sql_query_found = [c \in Calls |-> FALSE]
  /\ yielded = [c \in Calls |-> <<>>]
  /\ full_response = [c \in Calls |-> <<>>]
  /\ sql_query = [c \in Calls |-> None]
  /\ err = [c \in Calls |-> "none"]
  /\ result = [c \in Calls |-> NoResult]
  /\ interleaved = FALSE

\* ------------------------------------------------- Agents.create / update
Names == {"s1", "s2"}

\* an element of the skills argument: a Skill object or a skill name
SkillRefs == [kind : {"obj", "str"}, name : Names]

SkillLists == UNION { [1..n -> SkillRefs] : n \in 0..MaxSkills }

NoError == [type |-> "none", status |-> 0]
HTTPError(status) == [type |-> "HTTPError", status |-> status]
AttributeError == [type |-> "AttributeError", status |-> 0]

Req(req, name, status, existed, byObject) ==
  [req |-> req, name |-> name, status |-> status, existed |-> existed,
   byObject |-> byObject, names |-> <<>>, add |-> {}, remove |-> {}]

\* Skills.get -> api.skill: the status the server answers a lookup with;
\* fault is a server-side failure of this request
LookupStatus(name, srv, fault) ==
  IF fault THEN 500 ELSE IF name \in srv THEN 200 ELSE 404

\* Skills.create -> api.create_skill: the status the server answers with;
\* reject says whether this server refuses a name that already exists
CreateStatus(name, srv, reject) ==
  IF name \in srv /\ reject THEN 409 ELSE 200

\* Agents.create, the loop over skills
RECURSIVE CreateLoop(_, _, _, _, _, _, _)
CreateLoop(skills, i, srv, log, names, plan, reject) ==
  IF i > Len(skills)
  THEN [srv |-> srv, log |-> log, names |-> names, raised |-> NoError]
  ELSE LET ref == skills[i] IN
       IF ref.kind = "str"
       THEN LET st == LookupStatus(ref.name, srv, plan[i])
                log1 == Append(log, Req("get_skill", ref.name, st, ref.name \in srv, FALSE))
            IN IF st # 200
               THEN [srv |-> srv, log |-> log1, names |-> names, raised |-> HTTPError(st)]
               ELSE CreateLoop(skills, i + 1, srv, log1, Append(names, ref.name), plan, reject)
       ELSE LET st == CreateStatus(ref.name, srv, reject)
                log1 == Append(log, Req("create_skill", ref.name, st, ref.name \in srv, TRUE))
            IN IF st # 200
               THEN [srv |-> srv, log |-> log1, names |-> names, raised |-> HTTPError(st)]
               ELSE CreateLoop(skills, i + 1, srv \cup {ref.name}, log1,
                               Append(names, ref.name), plan, reject)

CreateOnAnyError(status) == TRUE

\* except HTTPError as e: if e.response.status_code != 404: raise e
CreateOnLookupError(status) == status = 404

\* Agents.update, the loop over updated_agent.skills
RECURSIVE UpdateLoop(_, _, _, _, _, _)
UpdateLoop(skills, i, srv, log, updated, plan) ==
  IF i > Len(skills)
  THEN [srv |-> srv, log |-> log, updated |-> updated, raised |-> NoError]
  ELSE LET ref == skills[i]
           st == LookupStatus(ref.name, srv, plan[i])
           log1 == Append(log, Req("get_skill", ref.name, st, ref.name \in srv,
                                   ref.kind = "obj"))
       IN IF st = 200
          THEN UpdateLoop(skills, i + 1, srv, log1, updated \cup {ref.name}, plan)
          ELSE IF ref.kind = "str" \/ ~CreateOnLookupError(st)
          THEN [srv |-> srv, log |-> log1, updated |-> updated, raised |-> HTTPError(st)]
          ELSE UpdateLoop(skills, i + 1, srv \cup {ref.name},
                          Append(log1, Req("create_skill", ref.name, 200,
                                           ref.name \in srv, TRUE)),
                          updated \cup {ref.name}, plan)

\* api.agent(...)['skills']: the decoded JSON of the agent's skills, one
\* dict per skill (Agent.from_json and Skill.from_json subscript them)
AgentSkillsJson(names) == { [isDict |-> TRUE, name |-> n] : n \in names }

\* s.name: attribute access, which a dict does not support
AttrName(s) == IF s.isDict THEN "AttributeError" ELSE s.name

\* existing_skills = set([s.name for s in existing_agent['skills']])
ExistingSkills(skillsJson) ==
  IF \E s \in skillsJson : AttrName(s) = "AttributeError"
  THEN [raised |-> AttributeError, names |-> {}]
  ELSE [raised |-> NoError, names |-> { AttrName(s) : s \in skillsJson }]

SeqToSet(q) == { q[i] : i \in 1..Len(q) }

NoHandler == [op |-> "none", skills |-> <<>>, existing |-> {}, log |-> <<>>,
              raised |-> NoError]

AgentsInit ==
  /\ serverSkills \in SUBSET Names
  /\ agentSkills \in SUBSET serverSkills
  /\ handler = NoHandler

\* no agents handler has run; the stream specifications start here
AgentsIdle ==
  /\ serverSkills = {}
  /\ agentSkills = {}
  /\ handler = NoHandler

Init == StreamInit /\ AgentsIdle

InitAgents == StreamInit /\ AgentsInit

AgentsCreate(skills, plan, reject) ==
  LET r == CreateLoop(skills, 1, serverSkills, <<>>, <<>>, plan, reject)
      sent == [Req("create_agent", "", 200, FALSE, FALSE) EXCEPT !.names = r.names]
  IN /\ serverSkills' = r.srv
     /\ IF r.raised # NoError
        THEN /\ handler' = [op |-> "create", skills |-> skills, existing |-> agentSkills,
                            log |-> r.log, raised |-> r.raised]
             /\ UNCHANGED agentSkills
        ELSE /\ handler' = [op |-> "create", skills |-> skills, existing |-> agentSkills,
                            log |-> Append(r.log, sent), raised |-> NoError]
             /\ agentSkills' = SeqToSet(r.names)
     /\ UNCHANGED svars

AgentsUpdate(skills, plan) ==
  LET r == UpdateLoop(skills, 1, serverSkills, <<>>, {}, plan)
      got == Append(r.log, Req("get_agent", "", 200, TRUE, FALSE))
      ex == ExistingSkills(AgentSkillsJson(agentSkills))
      skills_to_add == r.updated \ ex.names
      skills_to_remove == ex.names \ r.updated
      sent == [Req("update_agent", "", 200, TRUE, FALSE)
                 EXCEPT !.add = skills_to_add, !.remove = skills_to_remove]
  IN /\ serverSkills' = r.srv
     /\ IF r.raised # NoError
        THEN /\ handler' = [op |-> "update", skills |-> skills, existing |-> agentSkills,
                            log |-> r.log, raised |-> r.raised]
             /\ UNCHANGED agentSkills
        ELSE IF ex.raised # NoError
        THEN /\ handler' = [op |-> "update", skills |-> skills, existing |-> agentSkills,
                            log |-> got, raised |-> ex.raised]
             /\ UNCHANGED agentSkills
        ELSE /\ handler' = [op |-> "update", skills |-> skills, existing |-> agentSkills,
                            log |-> Append(got, sent), raised |-> NoError]
             /\ agentSkills' = (agentSkills \ skills_to_remove) \cup skills_to_add
     /\ UNCHANGED svars

NextAgents ==
  \/ \E skills \in SkillLists, plan \in [1..MaxSkills -> BOOLEAN], reject \in BOOLEAN :
       AgentsCreate(skills, plan, reject)
  \/ \E skills \in SkillLists, plan \in [1..MaxSkills -> BOOLEAN] :
       AgentsUpdate(skills, plan)

SpecAgents == InitAgents /\ [][NextAgents]_vars

\* ----------------------------------------------- properties of the agents
\* C8: Agents.create sends a create-skill request for a Skill object only
\* when no skill of that name exists on the server.
C8_CreateOnlyIfMissing ==
  handler.op = "create" =>
    \A i \in 1..Len(handler.log) :
      handler.log[i].req = "create_skill" => ~handler.log[i].existed

\* C9: in Agents.update a create-skill request is sent exactly after the
\* lookup of a Skill object's name failed with status 404; a lookup failing
\* with another status ends the call with that error; the lookup of a skill
\* given by name is never followed by a create-skill request.
C9_UpdateCreatesOn404Only ==
  handler.op = "update" =>
    LET log == handler.log IN
    \A i \in 1..Len(log) :
      /\ log[i].req = "create_skill" =>
           /\ i > 1
           /\ log[i-1].req = "get_skill" /\ log[i-1].name = log[i].name
           /\ log[i-1].status = 404 /\ log[i-1].byObject
      /\ (log[i].req = "get_skill" /\ log[i].byObject /\ log[i].status = 404) =>
           /\ i < Len(log)
           /\ log[i+1].req = "create_skill" /\ log[i+1].name = log[i].name
      /\ (log[i].req = "get_skill" /\ log[i].status \notin {200, 404}) =>
           i = Len(log) /\ handler.raised = HTTPError(log[i].status)
      /\ (log[i].req = "get_skill" /\ ~log[i].byObject /\ log[i].status # 200) =>
           i = Len(log) /\ handler.raised = HTTPError(log[i].status)

C9_Witness ==
  /\ handler.op = "update"
  /\ Len(handler.log) = 3
  /\ handler.log[1].status = 404 /\ handler.log[1].byObject
  /\ handler.log[2].req = "create_skill"
  /\ handler.log[3].status = 500 /\ handler.log[3].byObject
  /\ handler.raised = HTTPError(500)

\* C10: an Agents.update whose skill lookups all went through sends an
\* update request with skills_to_add = U \ E and skills_to_remove = E \ U,
\* U the names of updated_agent's skills and E those of the agent on the
\* server, for all U and E.
C10_UpdateCarriesDifferences ==
  (handler.op = "update" /\ handler.raised.type # "HTTPError") =>
    LET log == handler.log
        U == { handler.skills[i].name : i \in 1..Len(handler.skills) }
        E == handler.existing
    IN /\ log # <<>>
       /\ log[Len(log)].req = "update_agent"
       /\ log[Len(log)].add = U \ E
       /\ log[Len(log)].remove = E \ U
       /\ log[Len(log)].add \cap log[Len(log)].remove = {}
       /\ (E \ log[Len(log)].remove) \cup log[Len(log)].add = U

\* process_stream is entered: its locals and the generator's latch are set
Call(c) ==
  /\ pc[c] = "idle"
  /\ pc' = [pc EXCEPT ![c] = "running"]
  /\ full_response' = [full_response EXCEPT ![c] = <<>>]
  /\ sql_query' = [sql_query EXCEPT ![c] = None]
  /\ sql_query_found' = [sql_query_found EXCEPT ![c] = FALSE]
  /\ UNCHANGED <<consumed, srcfail, yielded, err, result, interleaved>>
  /\ UNCHANGED avars

\* the underlying sequence delivers chunk ch: the generator parses it and
\* yields a record, process_stream accumulates the record
NextChunk(c, ch, max) ==
  /\ pc[c] = "running"
  /\ Len(consumed[c]) < max
  /\ consumed' = [consumed EXCEPT ![c] = Append(@, ch)]
  /\ interleaved' = (interleaved \/
                       \E d \in Calls \ {c} : pc[d] = "running" /\ consumed[d] # <<>>)
  /\ LET r == ParseChunk(ch, FoundFlag(c, sql_query_found))
     IN IF r.err # "none"
        THEN /\ pc' = [pc EXCEPT ![c] = "raised"]
             /\ err' = [err EXCEPT ![c] = r.err]
             /\ UNCHANGED <<sql_query_found, yielded, full_response, sql_query>>
        ELSE /\ sql_query_found' = [sql_query_found EXCEPT ![c] = r.found]
             /\ yielded' = [yielded EXCEPT ![c] =
                              Append(@, [output |-> r.output, sql_query |-> r.sql_query])]
             /\ IF Truthy(r.output) /\ r.output.t # "str"
                THEN /\ pc' = [pc EXCEPT ![c] = "raised"]
                     /\ err' = [err EXCEPT ![c] = "TypeError"]
                     /\ UNCHANGED <<full_response, sql_query>>
                ELSE /\ full_response' = [full_response EXCEPT ![c] =
                            IF Truthy(r.output) THEN Accumulate(@, r.output.v) ELSE @]
                     /\ sql_query' = [sql_query EXCEPT ![c] = Latch(@, r.sql_query)]
                     /\ UNCHANGED <<pc, err>>
  /\ UNCHANGED <<srcfail, result>>
  /\ UNCHANGED avars

\* the underlying sequence fails while producing its next chunk
SourceFail(c, f) ==
  /\ pc[c] = "running"
  /\ srcfail' = [srcfail EXCEPT ![c] = f]
  /\ LET o == SourceFailure(f, full_response[c], sql_query[c])
     IN /\ pc' = [pc EXCEPT ![c] = o.pc]
        /\ err' = [err EXCEPT ![c] = o.err]
        /\ result' = [result EXCEPT ![c] = o.result]
  /\ UNCHANGED <<consumed, sql_query_found, yielded, full_response, sql_query,
                 interleaved>>
  /\ UNCHANGED avars

\* the underlying sequence is exhausted: return full_response, sql_query
Exhaust(c) ==
  /\ pc[c] = "running"
  /\ pc' = [pc EXCEPT ![c] = "done"]
  /\ result' = [result EXCEPT ![c] = Result(full_response[c], sql_query[c])]
  /\ UNCHANGED <<consumed, srcfail, sql_query_found, yielded, full_response,
                 sql_query, err, interleaved>>
  /\ UNCHANGED avars

Next ==
  \/ Call(1)
  \/ \E ch \in Chunks : NextChunk(1, ch, MaxChunks)
  \/ \E f \in Failures : SourceFail(1, f)
  \/ Exhaust(1)

Spec == Init /\ [][Next]_vars

NextPair ==
  \/ \E c \in Calls : Call(c)
  \/ \E c \in Calls, ch \in PairChunks : NextChunk(c, ch, MaxPairChunks)
  \/ \E c \in Calls, f \in Failures : SourceFail(c, f)
  \/ \E c \in Calls : Exhaust(c)

SpecPair == Init /\ [][NextPair]_vars

\* ------------------------------------------------ properties of the stream
ParseErrors == {"TypeError", "KeyError"}

\* the captured groups of the matching actions of a chunk, in action order
RECURSIVE MatchesFrom(_, _)
MatchesFrom(actions, i) ==
  IF i > Len(actions) THEN <<>>
  ELSE LET a == actions[i]
           hit == /\ a.tool.t = "str"
                  /\ Contains(a.tool.v, "M")
                  /\ Search(a.tool.v).matched
       IN (IF hit THEN <<Search(a.tool.v).group1>> ELSE <<>>)
            \o MatchesFrom(actions, i + 1)

MatchingPayloads(chunk) ==
  IF chunk.kind = "dict" /\ chunk.hasActions THEN MatchesFrom(chunk.actions, 1)
  ELSE <<>>

\* the captured groups of all matching actions of a chunk sequence, in
\* arrival order
RECURSIVE AllMatches(_)
AllMatches(chunks) ==
  IF chunks = <<>> THEN <<>>
  ELSE MatchingPayloads(Head(chunks)) \o AllMatches(Tail(chunks))

\* index of the first chunk holding a matching action, 0 if there is none
FirstMatchIndex(chunks) ==
  LET S == { i \in 1..Len(chunks) : MatchingPayloads(chunks[i]) # <<>> }
  IN IF S = {} THEN 0 ELSE Min(S)

OutputText(chunk) ==
  IF chunk.kind = "str" THEN chunk.text
  ELSE IF chunk.kind = "dict" /\ chunk.output.t = "str" THEN chunk.output.v
  ELSE <<>>

RECURSIVE ConcatOutputs(_)
ConcatOutputs(chunks) ==
  IF chunks = <<>> THEN <<>>
  ELSE OutputText(Head(chunks)) \o ConcatOutputs(Tail(chunks))

\* C1: when a finished process_stream call consumed two or more matching
\* actions, the sql_query it returns is the (unescaped) payload of the first
\* matching action in arrival order.
C1_FirstMatchWins ==
  \A c \in Calls :
    (pc[c] = "done" /\ Len(AllMatches(consumed[c])) >= 2)
      => result[c].sql_query = Str(Unescape(AllMatches(consumed[c])[1]))

\* C2: when a finished process_stream call consumed exactly one matching
\* action, the sql_query it returns is that action's payload with every \'
\* replaced by ', and never None, whatever the payload (the empty one too).
C2_SingleMatchReturned ==
  \A c \in Calls :
    (pc[c] = "done" /\ Len(AllMatches(consumed[c])) = 1)
      => result[c].sql_query = Str(Unescape(AllMatches(consumed[c])[1]))

\* C3: while process_stream runs and when it returns, full_response is the
\* concatenation in arrival order of the outputs of the chunks consumed so
\* far (so each chunk appends its output to the previous value), and the
\* returned full_response is that accumulator.
C3_FullResponseIsConcat ==
  \A c \in Calls :
    /\ pc[c] \in {"running", "done"}
         => full_response[c] = ConcatOutputs(consumed[c])
    /\ pc[c] = "done"
         => result[c].returned /\ result[c].full_response = ConcatOutputs(consumed[c])

C3_Witness ==
  /\ pc[1] = "done"
  /\ Len(consumed[1]) = 3
  /\ \E i \in 1..3 : OutputText(consumed[1][i]) = <<>>
  /\ result[1].full_response = <<"a", "b">>

\* C4: the generator yields one {output, sql_query} record per chunk, in
\* arrival order, and a yielded record has a non-null sql_query exactly when
\* its chunk is the first chunk that holds a matching action.
C4_OneRecordPerChunkOneQuery ==
  \A c \in Calls :
    /\ err[c] \notin ParseErrors => Len(yielded[c]) = Len(consumed[c])
    /\ Len(yielded[c]) <= Len(consumed[c])
    /\ \A i \in 1..Len(yielded[c]) :
         /\ yielded[c][i].output = Str(OutputText(consumed[c][i]))
              \/ consumed[c][i].output.t = "num"
         /\ yielded[c][i].sql_query # None <=> i = FirstMatchIndex(consumed[c])
         /\ i = FirstMatchIndex(consumed[c]) =>
              yielded[c][i].sql_query =
                 Str(Unescape(MatchingPayloads(consumed[c][i])[1]))

C4_Witness ==
  /\ Len(yielded[1]) = 3
  /\ FirstMatchIndex(consumed[1]) = 2
  /\ yielded[1][2].sql_query # None
  /\ MatchingPayloads(consumed[1][3]) # <<>>
  /\ yielded[1][3].sql_query = None

\* a chunk that is plain text, or a record whose fields are text or absent
Covered(chunk) ==
  \/ chunk.kind = "str"
  \/ /\ chunk.kind = "dict"
     /\ chunk.output.t \in {"absent", "str"}
     /\ \A i \in 1..Len(chunk.actions) : chunk.actions[i].tool.t \in {"absent", "str"}

\* C5: a call whose chunks are all plain text or records with absent fields
\* raises no error of its own; each such chunk yields its record, and the
\* record of a chunk without a matching action has sql_query None.
C5_AbsentFieldsNeverRaise ==
  \A c \in Calls :
    (\A i \in 1..Len(consumed[c]) : Covered(consumed[c][i]))
      => /\ err[c] \notin ParseErrors
         /\ Len(yielded[c]) = Len(consumed[c])
         /\ \A i \in 1..Len(consumed[c]) :
              MatchingPayloads(consumed[c][i]) = <<>> => yielded[c][i].sql_query = None

C5_Witness ==
  /\ pc[1] = "done"
  /\ consumed[1] = << Rec(Absent, FALSE, <<>>),
                      Rec(Str(<<"b">>), TRUE, <<Act(Absent)>>),
                      Rec(Absent, TRUE, <<Act(Str(<<"M">>))>> ) >>
  /\ result[1] = Result(<<"b">>, None)

\* C6: when the underlying sequence fails while producing a chunk, the call
\* ends by raising that same failure and returns no result.
C6_SourceFailurePropagates ==
  \A c \in Calls :
    srcfail[c] # "none"
      => pc[c] = "raised" /\ err[c] = srcfail[c] /\ ~result[c].returned

C6_Witness ==
  /\ srcfail[1] = "ConnectionError"
  /\ Len(consumed[1]) = 2
  /\ sql_query[1] # None
  /\ full_response[1] # <<>>
  /\ pc[1] = "raised"

\* what process_stream returns when it runs alone over a chunk sequence
RECURSIVE RunAlone(_, _, _, _)
RunAlone(chunks, full, sql, found) ==
  IF chunks = <<>> THEN Result(full, sql)
  ELSE LET r == ParseChunk(Head(chunks), found)
       IN IF r.err # "none" \/ (Truthy(r.output) /\ r.output.t # "str")
          THEN NoResult
          ELSE RunAlone(Tail(chunks),
                        IF Truthy(r.output) THEN Accumulate(full, r.output.v) ELSE full,
                        Latch(sql, r.sql_query), r.found)

\* C7: a call that returns, returns what it returns when run alone over its
\* own chunk sequence, whatever the other call on the same parser did before
\* or in between.
C7_CallsDoNotInterfere ==
  \A c \in Calls :
    pc[c] = "done" => result[c] = RunAlone(consumed[c], <<>>, None, FALSE)

C7_Witness ==
  /\ interleaved
  /\ pc[1] = "done" /\ pc[2] = "done"
  /\ result[1].sql_query = Str(<<"a">>)
  /\ result[2].sql_query = Str(<<"sq", "a">>)
  /\ result[1].full_response # result[2].full_response
====
